---- MODULE Spec2Model ----
(***************************************************************************)
(* Activation capture for a GPT model: the two hook-based capturers        *)
(* (DetailedActivationCapturer, ActivationCapturer), the per-tweet capture *)
(* loops that drive them, and a free client of the capturer interface.     *)
(***************************************************************************)
EXTENDS Integers, Sequences, FiniteSets, TLC

(* ------------------------------ bounds -------------------------------- *)
\* n_layer of the model
MaxLayers == 1
\* tweets lists of length 0..MaxTweets
MaxTweets == 2
\* registrations the free client keeps attached at once
MaxRegs == 2
\* feature width of the model's tensors
MaxEmbd == 2
\* block_size of the model
MaxBlock == 1
\* examples of the run load_activations reads
MaxItems == 3

VARIABLES
  variant,          \* which capturer / capture loop: "detailed" or "tweet"
  arch,             \* what the model's sites return: "tensor3", "tuple", "rank2"
  n_layer,          \* model.config.n_layer
  block_size,       \* model.config.block_size
  layer_names,      \* ActivationCapturer.layer_names
  hooks,            \* capturer.hooks: the handles the capturer keeps
  modelHooks,       \* the forward hooks attached to the model's modules
  activations,      \* capturer.activations
  capture_enabled,  \* capturer.capture_enabled
  fpos,             \* position of the running forward pass in the plan, 0 = none
  fskip,            \* sites the last model call does not execute
  x,                \* the tensor flowing through the running forward pass
  finput,           \* the input tensor of the last model call
  err,              \* exception raised by the last call: "none" or its type
  lastSeen,         \* per site, the result its hooks were last called with while
                    \* capture was enabled, since the last start_capture
  seenAgain,        \* the sites whose hooks were so called more than once
  cycle,            \* "closed"; "open" after start_capture; "reopened" after a
                    \* start_capture accepted while open; get_activations closes it
  returned,         \* the value returned by the last call of the capturer or model
  collected,        \* the capture loop's local: the map get_activations returned
  pc,               \* position of the capture loop ("api" for the free client)
  tweets,           \* the loaded tweets
  i,                \* loop index
  input_ids,        \* encode(tweet)
  input_tensor,     \* torch.tensor([input_ids]), cropped to the context window
  generated_text,   \* the sampled token
  activation_data,  \* layer name -> list of records
  all_tweet_ids, all_tweets, all_labels, all_generated, all_token_lengths,
  exc,              \* exception propagating out of the capture loop
  removeCalls,      \* number of remove_hooks calls made by the capture loop
  cycleLog,         \* capturer / model calls made for the current tweet
  saved             \* files written: name -> contents

capVars == <<hooks, modelHooks, activations, capture_enabled>>
fwdVars == <<fpos, fskip, x, finput>>
cfgVars == <<variant, arch, n_layer, block_size, layer_names>>
runVars == <<tweets, i, input_ids, input_tensor, collected, generated_text, activation_data, all_tweet_ids,
             all_tweets, all_labels, all_generated, all_token_lengths, exc,
             removeCalls, cycleLog, saved>>

\* main of analyze_all_emotions.py: load_activations, the plots and the report
VARIABLES
  an_pc,                 \* position of the analysis ("off" when it does not run)
  an_dir,                \* activations_dir: layer name -> contents of <layer>_activations.pt
  an_k,                  \* number of key layers the loop has taken up
  emotions,              \* the keys of activations_by_emotion
  report,                \* what main has plotted and written to the report, None before
  metadata,              \* the loaded gen_metadata.pt
  layer_data,            \* the loaded <layer>_activations.pt
  all_activations,       \* the vectors of the layer's items
  an_all_labels,         \* all_labels of load_activations: the label per vector
  activations_array,     \* the stacked matrix, a list of rows
  activations_by_layer,  \* layer -> matrix and labels
  unique_emotions,       \* the emotions the loop over np.unique(all_labels) has left
  neuron_importance_by_emotion,  \* emotion -> layer -> neurons and scores
  an_exc                 \* exception raised out of load_activations

anVars == <<an_pc, an_dir, an_k, emotions, report, metadata, layer_data, all_activations, an_all_labels, activations_array,
            activations_by_layer, unique_emotions, neuron_importance_by_emotion, an_exc>>
\* the capture subcommand: main.py and main of detailed_activations.py
VARIABLES
  main_max_tweets,       \* args.max_tweets of main.py
  cmd_max_tweets,        \* the word main.py puts after --max_tweets, "" before
  max_tweets             \* args.max_tweets of detailed_activations.py

cliVars == <<main_max_tweets, cmd_max_tweets, max_tweets>>
captureVars == <<cfgVars, capVars, fwdVars, err, lastSeen, seenAgain, cycle, returned, pc, runVars>>
vars == <<captureVars, anVars, cliVars>>

(* ------------------------------ tensors ------------------------------- *)
None == [kind |-> "None"]
EmptyMap == [k \in {} |-> None]

RECURSIVE Prod(_)
Prod(s) == IF s = <<>> THEN 1 ELSE Head(s) * Prod(Tail(s))

Tensor(shape, data) == [kind |-> "tensor", shape |-> shape, data |-> data]
Tuple(items) == [kind |-> "tuple", items |-> items]
IsTuple(o) == o.kind = "tuple"
Rank(t) == Len(t.shape)

\* t[:, -1, ...]: the last index of dimension 1, all of every other dimension
SelectLast(t) ==
  LET B == t.shape[1]
      S == t.shape[2]
      rest == SubSeq(t.shape, 3, Len(t.shape))
      inner == Prod(rest)
  IN Tensor(<<B>> \o rest,
            [k \in 1..(B * inner) |->
               t.data[((k - 1) \div inner) * S * inner + (S - 1) * inner
                      + ((k - 1) % inner) + 1]])

\* mutant: the first n columns are kept
LastColumns_first(t, n) ==
  Tensor(<<t.shape[1], n>>, [k \in 1..n |-> t.data[k]])

\* t[:, -n:]: the last n columns of a [1, len] tensor of token ids
LastColumns(t, n) ==
  LET len == t.shape[2]
  IN Tensor(<<t.shape[1], n>>, [k \in 1..n |-> t.data[len - n + k]])

Min(a, b) == IF a < b THEN a ELSE b

Put(acts, name, v) ==
  [k \in (DOMAIN acts) \cup {name} |-> IF k = name THEN v ELSE acts[k]]

HookResult(acts, e, ret) == [acts |-> acts, exc |-> e, ret |-> ret]

(* ------------------------- the observation hooks ---------------------- *)
\* mutant: the first value stored for a name in a cycle is kept
StoreDetailed_first(acts, name, outputs) ==
  LET output == IF IsTuple(outputs) THEN outputs.items[1] ELSE outputs
  IN IF name \in DOMAIN acts THEN HookResult(acts, "none", None)
     ELSE IF Len(output.shape) = 3
     THEN HookResult(Put(acts, name, SelectLast(output)), "none", None)
     ELSE HookResult(Put(acts, name, output), "none", None)

\* the body of DetailedActivationCapturer's hook once capture is enabled
StoreDetailed(acts, name, outputs) ==
  LET output == IF IsTuple(outputs) THEN outputs.items[1] ELSE outputs
  IN IF Len(output.shape) = 3
     THEN HookResult(Put(acts, name, SelectLast(output)), "none", None)
     ELSE HookResult(Put(acts, name, output), "none", None)

\* mutant: the hook stores whether or not capture is enabled
capture_hook_unguarded(acts, enabled, name, outputs) ==
  StoreDetailed(acts, name, outputs)

\* DetailedActivationCapturer._capture_hook(name).hook
capture_hook(acts, enabled, name, outputs) ==
  IF enabled THEN StoreDetailed(acts, name, outputs)
  ELSE HookResult(acts, "none", None)

\* outputs[:, -1, :] as Python evaluates it
IndexLast(outputs) ==
  IF IsTuple(outputs) THEN [exc |-> "TypeError"]
  ELSE IF Rank(outputs) < 3 \/ outputs.shape[2] = 0 THEN [exc |-> "IndexError"]
  ELSE [exc |-> "none", value |-> SelectLast(outputs)]

\* self.activations[name] = outputs[:, -1, :].detach().cpu()
StoreLast(acts, name, outputs) ==
  IF IndexLast(outputs).exc = "none"
  THEN HookResult(Put(acts, name, IndexLast(outputs).value), "none", None)
  ELSE HookResult(acts, IndexLast(outputs).exc, None)

\* ActivationCapturer._capture_layer_hook(name).hook
capture_layer_hook(acts, enabled, name, outputs) ==
  IF enabled THEN StoreLast(acts, name, outputs)
  ELSE HookResult(acts, "none", None)

\* mutant: the input hook stores whether or not capture is enabled
capture_input_hook_unguarded(acts, enabled, outputs) ==
  StoreLast(acts, "input_embeds", outputs)

\* ActivationCapturer._capture_input_hook
capture_input_hook(acts, enabled, outputs) ==
  IF enabled THEN StoreLast(acts, "input_embeds", outputs)
  ELSE HookResult(acts, "none", None)

(* --------------------------- the model's sites ------------------------ *)
H(k) == "h." \o ToString(k)
BlockSites(k) ==
  << H(k) \o ".ln_1", H(k) \o ".attn.c_attn", H(k) \o ".attn",
     H(k) \o ".ln_2", H(k) \o ".mlp.c_fc", H(k) \o ".mlp", H(k) >>

RECURSIVE Blocks(_, _)
Blocks(k, n) == IF k >= n THEN <<>> ELSE BlockSites(k) \o Blocks(k + 1, n)

\* the order in which the modules of the model finish during one forward pass
Plan(n) == <<"drop">> \o Blocks(0, n) \o <<"ln_f">>

Range(s) == {s[k] : k \in DOMAIN s}
Sites(n) == Range(Plan(n))

\* GPT.forward up to the first module: token plus position embeddings of idx
Embed(idx) ==
  LET S == idx.shape[2]
      data == [k \in 1..(S * MaxEmbd) |->
                 idx.data[((k - 1) \div MaxEmbd) + 1] + ((k - 1) % MaxEmbd)]
  IN IF arch = "rank2" THEN Tensor(<<S, MaxEmbd>>, data)
     ELSE Tensor(<<1, S, MaxEmbd>>, data)

\* the result of the k-th module of the plan applied to the tensor t
SiteOut(k, t) ==
  LET y == Tensor(t.shape, [j \in DOMAIN t.data |-> t.data[j] + k])
  IN IF arch = "tuple" THEN Tuple(<<y, Tensor(<<1>>, <<0>>)>>) ELSE y

Primary(out) == IF IsTuple(out) THEN out.items[1] ELSE out

\* GPT.forward without targets: lm_head on the last position only
LmHead(t) ==
  IF Rank(t) = 3
  THEN LET l == SelectLast(t) IN Tensor(<<t.shape[1], 1, t.shape[3]>>, l.data)
  ELSE t

\* the forward pass of the model with no hook attached
RECURSIVE ForwardFrom(_, _, _)
ForwardFrom(k, t, skip) ==
  IF k > Len(Plan(n_layer)) THEN LmHead(t)
  ELSE IF Plan(n_layer)[k] \in skip THEN ForwardFrom(k + 1, t, skip)
  ELSE ForwardFrom(k + 1, Primary(SiteOut(k, t)), skip)

PlainForward(idx, skip) == ForwardFrom(1, Embed(idx), skip)

(* ----------------------------- registration --------------------------- *)
Handle(site, name, fn, reg) == [site |-> site, name |-> name, fn |-> fn, reg |-> reg]

LayerPrefix(k) == "layer_" \o ToString(k)

\* the hooks DetailedActivationCapturer.register_hooks appends for layer k
DetailedLayer(k, reg) ==
  << Handle(H(k), LayerPrefix(k) \o "_output", "capture_hook", reg),
     Handle(H(k) \o ".ln_1", LayerPrefix(k) \o "_ln_1", "capture_hook", reg),
     Handle(H(k) \o ".attn", LayerPrefix(k) \o "_attn", "capture_hook", reg),
     Handle(H(k) \o ".attn.c_attn", LayerPrefix(k) \o "_attn_proj", "capture_hook", reg),
     Handle(H(k) \o ".ln_2", LayerPrefix(k) \o "_ln_2", "capture_hook", reg),
     Handle(H(k) \o ".mlp", LayerPrefix(k) \o "_mlp", "capture_hook", reg),
     Handle(H(k) \o ".mlp.c_fc", LayerPrefix(k) \o "_mlp_fc", "capture_hook", reg) >>

RECURSIVE DetailedLayers(_, _, _)
DetailedLayers(k, n, reg) ==
  IF k >= n THEN <<>> ELSE DetailedLayer(k, reg) \o DetailedLayers(k + 1, n, reg)

DetailedHandles(n, reg) ==
  <<Handle("drop", "input_embeds", "capture_hook", reg)>>
  \o DetailedLayers(0, n, reg)
  \o <<Handle("ln_f", "final_layer", "capture_hook", reg)>>

RECURSIVE TweetLayers(_, _, _, _)
TweetLayers(k, n, names, reg) ==
  IF k >= n THEN <<>>
  ELSE (IF LayerPrefix(k) \in names
        THEN <<Handle(H(k), LayerPrefix(k), "capture_layer_hook", reg)>>
        ELSE <<>>)
       \o TweetLayers(k + 1, n, names, reg)

\* the hooks ActivationCapturer.register_hooks appends
TweetHandles(n, names, reg) ==
  <<Handle("drop", "input_embeds", "capture_input_hook", reg)>>
  \o TweetLayers(0, n, names, reg)
  \o (IF "final_layer" \in names
      THEN <<Handle("ln_f", "final_layer", "capture_layer_hook", reg)>>
      ELSE <<>>)

\* ActivationCapturer.__init__: the default layer_names
DefaultNames(n) ==
  {"input_embeds"} \cup {LayerPrefix(k) : k \in 0..(n - 1)} \cup {"final_layer"}

\* layer_names arguments: the default, one without input_embeds, and one that
\* names a layer the model does not have
LayerNameChoices(n) ==
  {DefaultNames(n), {"final_layer"}, {LayerPrefix(0), LayerPrefix(n)}}

\* handles of one register_hooks call are told from earlier ones by the length
\* of the capturer's list when they were made
NewHandles ==
  IF variant = "detailed" THEN DetailedHandles(n_layer, Len(hooks))
  ELSE TweetHandles(n_layer, layer_names, Len(hooks))

\* the components the capturer was asked to observe
Requested ==
  IF variant = "detailed" THEN {h.name : h \in Range(DetailedHandles(n_layer, 0))}
  ELSE layer_names

(* --------------------------- capturer methods ------------------------- *)
\* mutant: register_hooks attaches nothing once the capturer holds hooks or captures
register_hooks_idle_only ==
  IF hooks # <<>> \/ capture_enabled
  THEN UNCHANGED <<hooks, modelHooks, activations, capture_enabled>>
  ELSE /\ hooks' = hooks \o NewHandles
       /\ modelHooks' = modelHooks \o NewHandles
       /\ UNCHANGED <<activations, capture_enabled>>

register_hooks ==
  /\ hooks' = hooks \o NewHandles
  /\ modelHooks' = modelHooks \o NewHandles
  /\ UNCHANGED <<activations, capture_enabled>>

remove_hooks ==
  /\ modelHooks' = SelectSeq(modelHooks, LAMBDA h : h \notin Range(hooks))
  /\ hooks' = <<>>
  /\ UNCHANGED <<activations, capture_enabled>>

\* mutant: start_capture keeps the accumulator of the cycle before
start_capture_keep ==
  /\ capture_enabled' = TRUE
  /\ UNCHANGED <<hooks, modelHooks, activations>>

\* mutant: start_capture refuses to start over while capture is enabled
start_capture_checked ==
  IF capture_enabled THEN UNCHANGED <<hooks, modelHooks, activations, capture_enabled>>
  ELSE /\ activations' = EmptyMap
       /\ capture_enabled' = TRUE
       /\ UNCHANGED <<hooks, modelHooks>>

\* mutant: start_capture keeps the entry of final_layer
start_capture_stale ==
  /\ activations' = [k \in DOMAIN activations \cap {"final_layer"} |-> activations[k]]
  /\ capture_enabled' = TRUE
  /\ UNCHANGED <<hooks, modelHooks>>

start_capture ==
  /\ activations' = EmptyMap
  /\ capture_enabled' = TRUE
  /\ UNCHANGED <<hooks, modelHooks>>

\* mutant: stop_capture leaves capture enabled
stop_capture_noop ==
  UNCHANGED <<hooks, modelHooks, activations, capture_enabled>>

stop_capture ==
  /\ capture_enabled' = FALSE
  /\ UNCHANGED <<hooks, modelHooks, activations>>

get_activations ==
  /\ returned' = activations
  /\ UNCHANGED capVars

(* ------------------- a module call with its forward hooks ------------- *)
CallHook(h, acts, enabled, outputs) ==
  IF h.fn = "capture_hook" THEN capture_hook(acts, enabled, h.name, outputs)
  ELSE IF h.fn = "capture_layer_hook" THEN capture_layer_hook(acts, enabled, h.name, outputs)
  ELSE capture_input_hook(acts, enabled, outputs)

\* torch calls the forward hooks of a module in registration order; a hook that
\* returns a value other than None replaces the module's result
RECURSIVE RunHooks(_, _, _, _)
RunHooks(hs, acts, enabled, out) ==
  IF hs = <<>> THEN [acts |-> acts, out |-> out, exc |-> "none"]
  ELSE LET r == CallHook(Head(hs), acts, enabled, out)
       IN IF r.exc # "none" THEN [acts |-> r.acts, out |-> out, exc |-> r.exc]
          ELSE RunHooks(Tail(hs), r.acts, enabled, IF r.ret = None THEN out ELSE r.ret)

HooksAt(site) == SelectSeq(modelHooks, LAMBDA h : h.site = site)

(* ------------------------------ inputs -------------------------------- *)
\* a text is named by its number of tokens: one that fills the context window
\* and one that is a token too long
Texts == {MaxBlock, MaxBlock + 1}
Labels == {"joy", "sad"}
Tweets == [text : Texts, label : Labels]
Archs == {"tensor3", "tuple", "rank2"}
Variants == {"detailed", "tweet"}
GenTexts == {"tok_a", "tok_b"}

\* get_encoder().encode: text t has t tokens, no two texts share a token
Encode(t) == [k \in 1..t |-> t + k]

\* torch.tensor([ids])
RowTensor(ids) == Tensor(<<1, Len(ids)>>, ids)

\* a forward pass may leave out the final layer norm
SkipChoices == {{}, {"ln_f"}}

ListsUpTo(S, n) == UNION {[1..k -> S] : k \in 0..n}

(* --------------------------- the forward pass ------------------------- *)
\* an enabled hook is attached to the site
Observing(site) == capture_enabled /\ HooksAt(site) # <<>>

\* what the k-th module of the plan leaves behind, given its result out and what
\* its forward hooks did (r)
AfterHooks(k, st, out, r) ==
  [acts |-> r.acts,
   seen |-> IF Observing(Plan(n_layer)[k])
            THEN [s \in (DOMAIN st.seen) \cup {Plan(n_layer)[k]} |->
                    IF s = Plan(n_layer)[k] THEN out ELSE st.seen[s]]
            ELSE st.seen,
   again |-> IF Observing(Plan(n_layer)[k]) /\ Plan(n_layer)[k] \in DOMAIN st.seen
             THEN st.again \cup {Plan(n_layer)[k]} ELSE st.again,
   x |-> IF r.exc = "none" THEN Primary(r.out) ELSE st.x,
   exc |-> r.exc]

\* the k-th module of the plan runs on st.x and torch calls its forward hooks;
\* st.seen and st.again record what enabled hooks were called with
ModuleCall(k, st, skip) ==
  IF Plan(n_layer)[k] \in skip THEN st
  ELSE CHOOSE res \in
         { AfterHooks(k, st, out, RunHooks(HooksAt(Plan(n_layer)[k]), st.acts,
                                           capture_enabled, out))
           : out \in {SiteOut(k, st.x)} } : TRUE

\* model(idx) from module k on, up to the first exception
RECURSIVE RunPlan(_, _, _)
RunPlan(k, st, skip) ==
  IF k > Len(Plan(n_layer)) \/ st.exc # "none" THEN st
  ELSE CHOOSE res \in {RunPlan(k + 1, nxt, skip) : nxt \in {ModuleCall(k, st, skip)}} : TRUE

Running(t) ==
  [acts |-> activations, seen |-> lastSeen, again |-> seenAgain, x |-> t, exc |-> "none"]

noRun == <<tweets, i, input_ids, input_tensor, collected, generated_text, activation_data,
           all_tweet_ids, all_tweets, all_labels, all_generated, all_token_lengths,
           removeCalls, saved>>

(* ------------------- calls of the capturer's methods ------------------ *)
\* a call that returns nothing and does not raise
Returns(v) ==
  /\ err' = "none" /\ returned' = v
  /\ finput' = None /\ fskip' = {}
  /\ UNCHANGED <<fpos, x>>

CallRegister ==
  /\ register_hooks
  /\ Returns(None)
  /\ UNCHANGED <<lastSeen, seenAgain, cycle>>

CallRemove ==
  /\ remove_hooks
  /\ Returns(None)
  /\ UNCHANGED <<lastSeen, seenAgain, cycle>>

CallStart ==
  /\ start_capture
  /\ Returns(None)
  /\ cycle' = IF cycle = "closed" THEN "open" ELSE "reopened"
  /\ lastSeen' = EmptyMap /\ seenAgain' = {}

CallStop ==
  /\ stop_capture
  /\ Returns(None)
  /\ UNCHANGED <<lastSeen, seenAgain, cycle>>

CallGet ==
  /\ get_activations
  /\ err' = "none" /\ finput' = None /\ fskip' = {}
  /\ cycle' = "closed"
  /\ UNCHANGED <<fpos, x, lastSeen, seenAgain>>

(* --------------------- a free client of the capturer ------------------ *)
ApiRegister ==
  /\ pc = "api" /\ Cardinality({h.reg : h \in Range(hooks)}) < MaxRegs
  /\ CallRegister
  /\ UNCHANGED <<cliVars, anVars, cfgVars, pc, exc, cycleLog, noRun>>

ApiRemove ==
  /\ pc = "api"
  /\ CallRemove
  /\ UNCHANGED <<cliVars, anVars, cfgVars, pc, exc, cycleLog, noRun>>

ApiStart ==
  /\ pc = "api"
  /\ CallStart
  /\ UNCHANGED <<cliVars, anVars, cfgVars, pc, exc, cycleLog, noRun>>

ApiStop ==
  /\ pc = "api"
  /\ CallStop
  /\ UNCHANGED <<cliVars, anVars, cfgVars, pc, exc, cycleLog, noRun>>

ApiGet ==
  /\ pc = "api"
  /\ CallGet
  /\ UNCHANGED <<cliVars, anVars, cfgVars, pc, exc, cycleLog, noRun>>

\* model(idx), all of it: hooks run inside the call, the client only sees its end
ApiForward ==
  /\ pc = "api"
  /\ \E t \in Texts, skip \in SkipChoices :
       \E st \in {RunPlan(1, Running(Embed(RowTensor(Encode(t)))), skip)} :
          /\ finput' = RowTensor(Encode(t)) /\ fskip' = skip
          /\ activations' = st.acts
          /\ lastSeen' = st.seen /\ seenAgain' = st.again
          /\ err' = st.exc
          /\ returned' = IF st.exc = "none" THEN LmHead(st.x) ELSE None
  /\ UNCHANGED <<cliVars, anVars, cfgVars, hooks, modelHooks, capture_enabled, fpos, x, cycle, pc,
                 exc, cycleLog, noRun>>

\* the run was not started from main.py
NoCli == main_max_tweets = None /\ cmd_max_tweets = "" /\ max_tweets = None

\* load_activations is not running
NoAnalysis ==
  /\ an_pc = "off" /\ metadata = None /\ layer_data = <<>>
  /\ an_dir = EmptyMap /\ an_k = 0 /\ emotions = {} /\ report = None
  /\ all_activations = <<>> /\ an_all_labels = <<>> /\ activations_array = None
  /\ activations_by_layer = EmptyMap /\ unique_emotions = <<>>
  /\ neuron_importance_by_emotion = EmptyMap /\ an_exc = "none"

NoRun ==
  /\ i = 0 /\ input_ids = <<>> /\ input_tensor = None
  /\ collected = EmptyMap /\ generated_text = "" /\ activation_data = EmptyMap
  /\ all_tweet_ids = <<>> /\ all_tweets = <<>> /\ all_labels = <<>>
  /\ all_generated = <<>> /\ all_token_lengths = <<>>
  /\ exc = "none" /\ removeCalls = 0 /\ cycleLog = <<>> /\ saved = EmptyMap

\* __init__ of either capturer
NewCapturer ==
  /\ hooks = <<>> /\ modelHooks = <<>> /\ activations = EmptyMap
  /\ capture_enabled = FALSE
  /\ fpos = 0 /\ fskip = {} /\ x = None /\ finput = None
  /\ err = "none" /\ lastSeen = EmptyMap /\ seenAgain = {}
  /\ cycle = "closed" /\ returned = None

ApiInit ==
  /\ variant \in Variants
  /\ arch \in Archs
  /\ n_layer = MaxLayers
  /\ block_size = MaxBlock
  /\ layer_names \in IF variant = "detailed" THEN {{}} ELSE LayerNameChoices(n_layer)
  /\ NewCapturer
  /\ pc = "api"
  /\ tweets = <<>>
  /\ NoRun
  /\ NoAnalysis
  /\ NoCli

ApiNext ==
  \/ ApiRegister \/ ApiRemove \/ ApiStart \/ ApiStop \/ ApiGet \/ ApiForward

ApiSpec == ApiInit /\ [][ApiNext]_vars

(* ------ capture_detailed_activations / capture_activations ------------ *)
noLoop == <<tweets, i, input_ids, input_tensor, collected, generated_text,
            activation_data, all_tweet_ids, all_tweets, all_labels, all_generated,
            all_token_lengths, removeCalls, saved>>

\* capturer = ...Capturer(model); capturer.register_hooks()
Register ==
  /\ pc = "register"
  /\ CallRegister
  /\ pc' = "loop"
  /\ UNCHANGED <<cliVars, anVars, cfgVars, exc, cycleLog, noLoop>>

\* capturer.register_hooks() raises part-way (the model lacks a module the method
\* names): the hooks appended before stay, and the call is made before the try
\* block, so the exception leaves the function without reaching the finally clause
RegisterRaise ==
  /\ pc = "register"
  /\ \E k \in 1..(Len(NewHandles) - 1) :
       /\ hooks' = hooks \o SubSeq(NewHandles, 1, k)
       /\ modelHooks' = modelHooks \o SubSeq(NewHandles, 1, k)
  /\ err' = "AttributeError" /\ exc' = "AttributeError"
  /\ pc' = "register_raised"
  /\ UNCHANGED <<cliVars, anVars, cfgVars, activations, capture_enabled, fwdVars, lastSeen, seenAgain,
                 cycle, returned, cycleLog, noLoop>>

\* for i in range(len(tweets)): the next tweet, or the end of the try block
LoopHead ==
  /\ pc = "loop"
  /\ pc' = IF i < Len(tweets) THEN "encode" ELSE "finally"
  /\ cycleLog' = <<>>
  /\ UNCHANGED <<cliVars, anVars, cfgVars, capVars, fwdVars, err, lastSeen, seenAgain, cycle, returned, exc, noLoop>>

\* input_ids = encode(tweet); input_tensor = torch.tensor([input_ids])
Tokenize ==
  /\ pc = "encode"
  /\ input_ids' = Encode(tweets[i + 1].text)
  /\ input_tensor' = RowTensor(Encode(tweets[i + 1].text))
  /\ pc' = "start_capture"
  /\ UNCHANGED <<cliVars, anVars, cfgVars, capVars, fwdVars, err, lastSeen, seenAgain, cycle, returned, exc,
                 cycleLog, tweets, i, collected, generated_text, activation_data,
                 all_tweet_ids, all_tweets, all_labels, all_generated,
                 all_token_lengths, removeCalls, saved>>

\* mutant: the exception is swallowed and the loop goes on with the tweet's metadata
Throw_swallowed(e) ==
  /\ exc' = "none"
  /\ pc' = "metadata"

\* mutant: no finally clause, the exception leaves the function at once
Throw_no_finally(e) ==
  /\ exc' = e
  /\ pc' = "raised"

\* an exception in the try block goes to the finally clause
Throw(e) ==
  /\ exc' = e
  /\ pc' = "finally"

\* encode(tweet) raises
TokenizeRaise ==
  /\ pc = "encode"
  /\ Throw("ValueError")
  /\ UNCHANGED <<cliVars, anVars, cfgVars, capVars, fwdVars, err, lastSeen, seenAgain, cycle, returned, cycleLog,
                 noLoop>>

StartCapture ==
  /\ pc = "start_capture"
  /\ CallStart
  /\ cycleLog' = Append(cycleLog, "start_capture")
  /\ pc' = "crop"
  /\ UNCHANGED <<cliVars, anVars, cfgVars, exc, noLoop>>

\* if input_tensor.size(1) > block_size: input_tensor = input_tensor[:, -block_size:]
Crop ==
  /\ pc = "crop"
  /\ input_tensor' = IF input_tensor.shape[2] > block_size
                     THEN LastColumns(input_tensor, block_size)
                     ELSE input_tensor
  /\ pc' = "forward"
  /\ UNCHANGED <<cliVars, anVars, cfgVars, capVars, fwdVars, err, lastSeen, seenAgain, cycle, returned, exc,
                 cycleLog, tweets, i, input_ids, collected, generated_text,
                 activation_data, all_tweet_ids, all_tweets, all_labels,
                 all_generated, all_token_lengths, removeCalls, saved>>

\* logits, _ = model(input_tensor): the call starts, the embeddings are computed
Forward ==
  /\ pc = "forward"
  /\ \E skip \in SkipChoices : fskip' = skip
  /\ fpos' = 1
  /\ finput' = input_tensor
  /\ x' = Embed(input_tensor)
  /\ err' = "none" /\ returned' = None
  /\ cycleLog' = Append(cycleLog, "forward")
  /\ pc' = "in_forward"
  /\ UNCHANGED <<cliVars, anVars, cfgVars, capVars, lastSeen, seenAgain, cycle, exc, noLoop>>

\* the next module of the plan runs and torch calls its forward hooks
SiteStep ==
  /\ pc = "in_forward"
  /\ fpos \in 1..Len(Plan(n_layer))
  /\ \E st \in {ModuleCall(fpos, Running(x), fskip)} :
       /\ activations' = st.acts
       /\ lastSeen' = st.seen /\ seenAgain' = st.again
       /\ err' = st.exc
       /\ IF st.exc = "none"
          THEN /\ x' = st.x /\ fpos' = fpos + 1
               /\ UNCHANGED <<pc, exc>>
          ELSE /\ x' = None /\ fpos' = 0
               /\ Throw(st.exc)
  /\ UNCHANGED <<cliVars, anVars, cfgVars, hooks, modelHooks, capture_enabled, fskip, finput, cycle,
                 returned, cycleLog, noLoop>>

\* the forward pass itself fails
ModelRaise ==
  /\ pc = "in_forward"
  /\ fpos \in 1..(Len(Plan(n_layer)) + 1)
  /\ err' = "InferenceError"
  /\ x' = None /\ fpos' = 0
  /\ Throw("InferenceError")
  /\ UNCHANGED <<cliVars, anVars, cfgVars, capVars, fskip, finput, lastSeen, seenAgain, cycle, returned, cycleLog,
                 noLoop>>

\* model(input_tensor) returns its logits
ForwardReturn ==
  /\ pc = "in_forward"
  /\ fpos = Len(Plan(n_layer)) + 1
  /\ fpos' = 0
  /\ returned' = LmHead(x)
  /\ x' = None
  /\ pc' = "sample"
  /\ UNCHANGED <<cliVars, anVars, cfgVars, capVars, fskip, finput, err, lastSeen, seenAgain, cycle, exc, cycleLog,
                 noLoop>>

\* logits[:, -1, :] / 0.8, softmax, multinomial, decode
Sample ==
  /\ pc = "sample"
  /\ IF IndexLast(returned).exc = "none"
     THEN /\ \E g \in GenTexts : generated_text' = g
          /\ pc' = "stop_capture"
          /\ UNCHANGED exc
     ELSE /\ Throw(IndexLast(returned).exc)
          /\ UNCHANGED generated_text
  /\ UNCHANGED <<cliVars, anVars, cfgVars, capVars, fwdVars, err, lastSeen, seenAgain, cycle, returned, cycleLog,
                 tweets, i, input_ids, input_tensor, collected, activation_data,
                 all_tweet_ids, all_tweets, all_labels, all_generated,
                 all_token_lengths, removeCalls, saved>>

StopCapture ==
  /\ pc = "stop_capture"
  /\ CallStop
  /\ cycleLog' = Append(cycleLog, "stop_capture")
  /\ pc' = "get_activations"
  /\ UNCHANGED <<cliVars, anVars, cfgVars, exc, noLoop>>

\* activations = capturer.get_activations()
GetActivations ==
  /\ pc = "get_activations"
  /\ CallGet
  /\ collected' = activations
  /\ cycleLog' = Append(cycleLog, "get_activations")
  /\ pc' = "store"
  /\ UNCHANGED <<cliVars, anVars, cfgVars, exc, tweets, i, input_ids, input_tensor, generated_text,
                 activation_data, all_tweet_ids, all_tweets, all_labels, all_generated,
                 all_token_lengths, removeCalls, saved>>

Record(activation, label, tweet_id) ==
  [data |-> activation, label |-> label, tweet_id |-> tweet_id]

\* mutant: the record of the current tweet is put in front of the list
StoreInto_prepend(data, acts, label, tweet_id) ==
  [name \in (DOMAIN data) \cup (DOMAIN acts) |->
     IF name \in DOMAIN acts
     THEN <<Record(acts[name], label, tweet_id)>>
          \o (IF name \in DOMAIN data THEN data[name] ELSE <<>>)
     ELSE data[name]]

\* for layer_name, activation in activations.items(): activation_data[...].append(...)
StoreInto(data, acts, label, tweet_id) ==
  [name \in (DOMAIN data) \cup (DOMAIN acts) |->
     IF name \in DOMAIN acts
     THEN Append(IF name \in DOMAIN data THEN data[name] ELSE <<>>,
                 Record(acts[name], label, tweet_id))
     ELSE data[name]]

Store ==
  /\ pc = "store"
  /\ activation_data' = StoreInto(activation_data, collected, tweets[i + 1].label,
                                  ToString(i))
  /\ pc' = "metadata"
  /\ UNCHANGED <<cliVars, anVars, cfgVars, capVars, fwdVars, err, lastSeen, seenAgain, cycle, returned, exc,
                 cycleLog, tweets, i, input_ids, input_tensor, collected,
                 generated_text, all_tweet_ids, all_tweets, all_labels, all_generated,
                 all_token_lengths, removeCalls, saved>>

\* the metadata of tweet i is appended and the loop goes on
Metadata ==
  /\ pc = "metadata"
  /\ all_tweet_ids' = Append(all_tweet_ids, ToString(i))
  /\ all_tweets' = Append(all_tweets, tweets[i + 1].text)
  /\ all_labels' = Append(all_labels, tweets[i + 1].label)
  /\ all_generated' = Append(all_generated, generated_text)
  /\ all_token_lengths' = Append(all_token_lengths, Len(input_ids))
  /\ i' = i + 1
  /\ pc' = "loop"
  /\ UNCHANGED <<cliVars, anVars, cfgVars, capVars, fwdVars, err, lastSeen, seenAgain, cycle, returned, exc,
                 cycleLog, tweets, input_ids, input_tensor, collected, generated_text,
                 activation_data, removeCalls, saved>>

\* finally: capturer.remove_hooks(); then the exception, if any, goes on
\* mutant: the files are written whether or not the loop raised
Finally_always_save ==
  /\ pc = "finally"
  /\ CallRemove
  /\ removeCalls' = removeCalls + 1
  /\ pc' = "save"
  /\ UNCHANGED <<cliVars, anVars, cfgVars, exc, cycleLog, tweets, i, input_ids, input_tensor, collected,
                 generated_text, activation_data, all_tweet_ids, all_tweets, all_labels,
                 all_generated, all_token_lengths, saved>>

Finally ==
  /\ pc = "finally"
  /\ CallRemove
  /\ removeCalls' = removeCalls + 1
  /\ pc' = IF exc = "none" THEN "save" ELSE "raised"
  /\ UNCHANGED <<cliVars, anVars, cfgVars, exc, cycleLog, tweets, i, input_ids, input_tensor, collected,
                 generated_text, activation_data, all_tweet_ids, all_tweets, all_labels,
                 all_generated, all_token_lengths, saved>>

FileOf(layer_name) == layer_name \o "_activations.pt"

\* the dictionary saved as gen_metadata.pt
MetadataFile ==
  [tweet_ids |-> all_tweet_ids, tweets |-> all_tweets, labels |-> all_labels,
   generated_text |-> all_generated, token_lengths |-> all_token_lengths]

\* mutant: the rows of samples.json are written last tweet first
SamplesJson_reversed ==
  [k \in 1..Len(all_tweets) |->
     [id |-> all_tweet_ids[Len(all_tweets) + 1 - k],
      text |-> all_tweets[Len(all_tweets) + 1 - k],
      label |-> all_labels[Len(all_tweets) + 1 - k],
      generated |-> all_generated[Len(all_tweets) + 1 - k]]]

\* samples_json: for i in range(len(all_tweets)): append {id, text, label, generated}
SamplesJson ==
  [k \in 1..Len(all_tweets) |->
     [id |-> all_tweet_ids[k], text |-> all_tweets[k], label |-> all_labels[k],
      generated |-> all_generated[k]]]

\* the files the function writes, by name
FileNames ==
  {FileOf(name) : name \in DOMAIN activation_data}
  \cup {"gen_metadata.pt"}
  \cup (IF variant = "detailed" THEN {"samples.json"} ELSE {})

\* the layer a file name is of
LayerOf(f) == CHOOSE name \in DOMAIN activation_data : FileOf(name) = f

\* torch.save of every layer's list and of the metadata (and samples.json)
Save ==
  /\ pc = "save"
  /\ saved' = [f \in FileNames |->
                IF f = "gen_metadata.pt" THEN MetadataFile
                ELSE IF f = "samples.json" THEN SamplesJson
                ELSE activation_data[LayerOf(f)]]
  /\ pc' = "done"
  /\ UNCHANGED <<cliVars, anVars, cfgVars, capVars, fwdVars, err, lastSeen, seenAgain, cycle, returned, exc,
                 cycleLog, tweets, i, input_ids, input_tensor, collected,
                 generated_text, activation_data, all_tweet_ids, all_tweets, all_labels,
                 all_generated, all_token_lengths, removeCalls>>

Init ==
  /\ variant \in Variants
  /\ arch \in Archs
  /\ n_layer = MaxLayers
  /\ block_size = MaxBlock
  /\ layer_names = IF variant = "detailed" THEN {} ELSE DefaultNames(n_layer)
  /\ NewCapturer
  /\ pc = "register"
  /\ tweets \in ListsUpTo(Tweets, MaxTweets)
  /\ NoRun
  /\ NoAnalysis
  /\ NoCli

Next ==
  \/ Register \/ RegisterRaise \/ LoopHead \/ Tokenize \/ TokenizeRaise \/ StartCapture \/ Crop
  \/ Forward \/ SiteStep \/ ModelRaise \/ ForwardReturn \/ Sample \/ StopCapture
  \/ GetActivations \/ Store \/ Metadata \/ Finally \/ Save

Spec == Init /\ [][Next]_vars

\* the identifiers list_available_components prints for a model of n layers
list_available_components(n) ==
  {"input_embeds"}
  \cup UNION {{LayerPrefix(k) \o "_output", LayerPrefix(k) \o "_ln_1", LayerPrefix(k) \o "_attn",
              LayerPrefix(k) \o "_attn_proj", LayerPrefix(k) \o "_ln_2",
              LayerPrefix(k) \o "_mlp", LayerPrefix(k) \o "_mlp_fc"} : k \in 0..(n - 1)}
  \cup {"final_layer", "logits"}

(* ------------------- main.py capture -> detailed_activations.py ------- *)
\* an option that holds an integer
IntArg(k) == [kind |-> "int", value |-> k]

\* the values --max_tweets is given on the command line of main.py, None when it
\* is left out
MaxTweetsArgs == {None} \cup {IntArg(k) : k \in 0..(MaxTweets + 1)}

\* int(word) of argparse's type=int: the number, or None when argparse rejects
\* the word
ParseInt(word) ==
  IF \E k \in 0..(MaxTweets + 1) : ToString(k) = word
  THEN IntArg(CHOOSE k \in 0..(MaxTweets + 1) : ToString(k) = word)
  ELSE None

noCapture == <<cfgVars, capVars, fwdVars, err, lastSeen, seenAgain, cycle, returned, runVars>>

\* capture(args) of main.py: the command line of the capture script
MainCapture ==
  /\ pc = "main"
  /\ cmd_max_tweets' = IF main_max_tweets # None THEN ToString(main_max_tweets.value)
                        ELSE "None"
  /\ pc' = "script"
  /\ UNCHANGED <<noCapture, anVars, main_max_tweets, max_tweets>>

\* main of detailed_activations.py: parser.parse_args() of the forwarded words;
\* a word type=int rejects ends the script with a usage error
ScriptParse ==
  /\ pc = "script"
  /\ IF ParseInt(cmd_max_tweets) = None
     THEN pc' = "usage_error" /\ UNCHANGED max_tweets
     ELSE pc' = "load_tweets" /\ max_tweets' = ParseInt(cmd_max_tweets)
  /\ UNCHANGED <<noCapture, anVars, main_max_tweets, cmd_max_tweets>>

\* tweets = load_tweets(tweet_source, samples_per_emotion, emotions)
LoadTweets ==
  /\ pc = "load_tweets"
  /\ tweets' \in ListsUpTo(Tweets, MaxTweets)
  /\ pc' = "truncate"
  /\ UNCHANGED <<cfgVars, capVars, fwdVars, err, lastSeen, seenAgain, cycle, returned,
                 i, input_ids, input_tensor, collected, generated_text, activation_data,
                 all_tweet_ids, all_tweets, all_labels, all_generated, all_token_lengths,
                 exc, removeCalls, cycleLog, saved, anVars, cliVars>>

\* if max_tweets is not None: tweets = tweets[:max_tweets]
Truncated ==
  IF max_tweets # None THEN SubSeq(tweets, 1, Min(max_tweets.value, Len(tweets)))
  ELSE tweets

Truncate ==
  /\ pc = "truncate"
  /\ tweets' = Truncated
  /\ pc' = "register"
  /\ UNCHANGED <<cfgVars, capVars, fwdVars, err, lastSeen, seenAgain, cycle, returned,
                 i, input_ids, input_tensor, collected, generated_text, activation_data,
                 all_tweet_ids, all_tweets, all_labels, all_generated, all_token_lengths,
                 exc, removeCalls, cycleLog, saved, anVars, cliVars>>

CliInit ==
  /\ variant = "detailed"
  /\ arch \in Archs
  /\ n_layer = MaxLayers
  /\ block_size = MaxBlock
  /\ layer_names = {}
  /\ NewCapturer
  /\ pc = "main"
  /\ tweets = <<>>
  /\ NoRun
  /\ NoAnalysis
  /\ main_max_tweets \in MaxTweetsArgs
  /\ cmd_max_tweets = "" /\ max_tweets = None

CliNext ==
  \/ MainCapture \/ ScriptParse \/ LoadTweets \/ Truncate

CliSpec == CliInit /\ [][CliNext]_vars

(* --------------- analyze_all_emotions.py: load_activations ------------ *)
\* numbers of the analysis are exact fractions n/d in lowest terms, d > 0;
\* floating-point rounding is left out
RECURSIVE Gcd(_, _)
Gcd(a, b) == IF b = 0 THEN a ELSE Gcd(b, a % b)

Abs(a) == IF a < 0 THEN -a ELSE a

Q(n, d) ==
  LET g == Gcd(Abs(n), d)
  IN [n |-> n \div g, d |-> d \div g]

QAdd(a, b) == Q(a.n * b.d + b.n * a.d, a.d * b.d)
QSub(a, b) == Q(a.n * b.d - b.n * a.d, a.d * b.d)
QLess(a, b) == a.n * b.d < b.n * a.d

RECURSIVE QSum(_)
QSum(qs) == IF qs = <<>> THEN Q(0, 1) ELSE QAdd(Head(qs), QSum(Tail(qs)))

\* np.mean of a list of numbers
QMean(qs) == LET t == QSum(qs) IN Q(t.n, t.d * Len(qs))

\* np.mean(m, axis=0) of a [rows, cols] array given row-major
MeanAxis0(data, rows, cols) ==
  [k \in 1..cols |-> QMean([r \in 1..rows |-> data[(r - 1) * cols + k]])]

\* mutant: a rank-3 tensor with batch 1 keeps its last row in place of the mean
normalize_one_last(t) ==
  IF Rank(t) = 3 /\ t.shape[1] = 1 /\ t.shape[2] = 1
  THEN Tensor(<<t.shape[3]>>, t.data)
  ELSE IF Rank(t) = 3 /\ t.shape[1] = 1
  THEN Tensor(<<t.shape[3]>>,
              [k \in 1..t.shape[3] |-> t.data[(t.shape[2] - 1) * t.shape[3] + k]])
  ELSE IF Rank(t) = 2
  THEN Tensor(<<t.shape[2]>>, MeanAxis0(t.data, t.shape[1], t.shape[2]))
  ELSE IF Rank(t) = 1 THEN t
  ELSE Tensor(<<Prod(t.shape)>>, t.data)

\* the shape handling of one item's data
normalize_one(t) ==
  IF Rank(t) = 3 /\ t.shape[1] = 1 /\ t.shape[2] = 1
  THEN Tensor(<<t.shape[3]>>, t.data)
  ELSE IF Rank(t) = 3 /\ t.shape[1] = 1
  THEN Tensor(<<t.shape[3]>>, MeanAxis0(t.data, t.shape[2], t.shape[3]))
  ELSE IF Rank(t) = 2
  THEN Tensor(<<t.shape[2]>>, MeanAxis0(t.data, t.shape[1], t.shape[2]))
  ELSE IF Rank(t) = 1 THEN t
  ELSE Tensor(<<Prod(t.shape)>>, t.data)

\* top_n = min(20, diff.shape[0])
TopN == 20

\* what a run of the capture left for one layer: per example its label and the
\* shape of the tensor recorded for the layer, "absent" when none was recorded
Kinds == {"first", "seqmean", "rank2", "rank1", "other"}
\* the data of a run: "a" has scores that seldom tie, "ties" has the rows
\* [1,0,..], [1,1,..] for joy and [..,1,1] for sad, "wide" has more features than
\* the ranking returns
\* the other layers of a run hold "deep": 0 for joy and the feature number for sad
Profiles == {"a", "ties", "wide"}
Width(profile) ==
  IF profile = "wide" THEN TopN + 1
  ELSE IF profile = "ties" THEN 2 * MaxEmbd
  ELSE MaxEmbd

KindShape(kind, E) ==
  IF kind = "first" THEN <<1, 1, E>>
  ELSE IF kind = "seqmean" THEN <<1, 2, E>>
  ELSE IF kind = "rank2" THEN <<2, E>>
  ELSE IF kind = "rank1" THEN <<E>>
  ELSE <<2, 1, E>>

\* element j of the tensor recorded for the example at position pos
Value(profile, pos, label, j) ==
  IF profile = "ties"
  THEN (IF label = "joy"
        THEN (IF j <= MaxEmbd /\ j <= pos THEN 1 ELSE 0)
        ELSE (IF j > MaxEmbd THEN 1 ELSE 0))
  ELSE IF profile = "deep"
  THEN (IF label = "joy" THEN 0 ELSE j)
  ELSE (IF label = "joy" THEN j * pos ELSE j * j * pos + 1)

MakeTensor(profile, pos, label, kind) ==
  Tensor(KindShape(kind, Width(profile)),
         [j \in 1..Prod(KindShape(kind, Width(profile))) |->
            Q(Value(profile, pos, label, j), 1)])

Examples(profile) ==
  [label : Labels,
   kind : IF profile = "a" THEN Kinds \cup {"absent"}
          ELSE IF profile = "wide" THEN {"first", "rank1"}
          ELSE {"first"}]

\* gen_metadata.pt of the run
MetadataOf(ex) ==
  [tweet_ids |-> [k \in DOMAIN ex |-> ToString(k - 1)],
   labels |-> [k \in DOMAIN ex |-> ex[k].label]]

\* <layer>_activations.pt of the run: a record per example the layer was recorded for
LayerDataOf(profile, ex) ==
  LET present == SelectSeq([k \in DOMAIN ex |-> k], LAMBDA k : ex[k].kind # "absent")
  IN [a \in DOMAIN present |->
        Record(MakeTensor(profile, present[a], ex[present[a]].label, ex[present[a]].kind),
               ex[present[a]].label, ToString(present[a] - 1))]

\* the layer names a capture run gives its files
Persisted == {"input_embeds", "layer_0", "layer_9", "layer_11", "final_layer"}

\* the sets of files a directory holds
Dirs(profile) ==
  IF profile = "a" THEN {{"final_layer"}}
  ELSE {{"final_layer"}, {"layer_9", "final_layer"},
        {"final_layer", "layer_11", "layer_0"}, {"layer_0", "input_embeds"}}

\* the contents of the files of a directory; layer_11 was recorded for the first
\* example only
DirOf(names, profile, ex) ==
  [name \in names |->
     IF name \in {"final_layer", "layer_0"} THEN LayerDataOf(profile, ex)
     ELSE IF name = "layer_11" THEN LayerDataOf("deep", SubSeq(ex, 1, Min(1, Len(ex))))
     ELSE LayerDataOf("deep", ex)]

anNoInput == <<metadata, an_dir>>

\* mutant: every file of the directory is a key layer
key_layers_all ==
  SelectSeq(<<"final_layer", "layer_11", "layer_10", "layer_9", "layer_0", "input_embeds">>,
            LAMBDA l : l \in DOMAIN an_dir)

\* key_layers: the four layers of the analysis that have a file, in their order
key_layers ==
  SelectSeq(<<"final_layer", "layer_11", "layer_10", "layer_9">>,
            LAMBDA l : l \in DOMAIN an_dir)

\* the layer the loop is at
layer == key_layers[an_k]

\* for layer in key_layers: the next layer's file is loaded, or the loop ends
NextLayer ==
  /\ an_pc = "layer"
  /\ IF an_k < Len(key_layers)
     THEN /\ an_k' = an_k + 1
          /\ layer_data' = an_dir[key_layers[an_k + 1]]
          /\ all_activations' = <<>> /\ an_all_labels' = <<>>
          /\ an_pc' = "load"
     ELSE /\ an_pc' = "plots"
          /\ UNCHANGED <<an_k, layer_data, all_activations, an_all_labels>>
  /\ UNCHANGED <<cliVars, captureVars, anNoInput, emotions, report, activations_array,
                 activations_by_layer, unique_emotions, neuron_importance_by_emotion, an_exc>>

\* the items the loop keeps: those at a position the metadata has a label for
Kept == SelectSeq([k \in DOMAIN layer_data |-> k], LAMBDA k : k <= Len(metadata.labels))

\* for i, item in enumerate(layer_data): the vector of each item and the label
\* metadata["labels"][i]
LoadItems ==
  /\ an_pc = "load"
  /\ all_activations' = [a \in DOMAIN Kept |-> normalize_one(layer_data[Kept[a]].data)]
  /\ an_all_labels' = [a \in DOMAIN Kept |-> metadata.labels[Kept[a]]]
  /\ emotions' = emotions \cup {metadata.labels[Kept[a]] : a \in DOMAIN Kept}
  /\ an_pc' = IF Kept = <<>> THEN "layer" ELSE "stack"
  /\ UNCHANGED <<cliVars, captureVars, anNoInput, an_k, layer_data, report, activations_array,
                 activations_by_layer, unique_emotions, neuron_importance_by_emotion, an_exc>>

SameShapes(ts) == \A a, b \in DOMAIN ts : ts[a].shape = ts[b].shape

Rows(ts) == [a \in DOMAIN ts |-> ts[a].data]

\* np.stack(all_activations): the matrix, or ValueError when the shapes differ
Stack ==
  /\ an_pc = "stack"
  /\ IF SameShapes(all_activations)
     THEN /\ activations_array' = Rows(all_activations)
          /\ activations_by_layer' =
               Put(activations_by_layer, layer,
                   [activations |-> Rows(all_activations), labels |-> an_all_labels])
          /\ an_pc' = "emotions"
     ELSE /\ an_pc' = "filter"
          /\ UNCHANGED <<activations_array, activations_by_layer>>
  /\ UNCHANGED <<cliVars, captureVars, anNoInput, an_k, layer_data, emotions, report, all_activations,
                 an_all_labels, unique_emotions, neuron_importance_by_emotion, an_exc>>

Count(ts, shape) == Cardinality({a \in DOMAIN ts : ts[a].shape = shape})

\* mutant: the filter keeps the vectors of the shape of the first item
MostCommonShape_first(ts) == ts[1].shape

\* Counter(shapes).most_common(1)[0][0]: the most frequent shape, the one met
\* first among equally frequent ones
MostCommonShape(ts) ==
  LET best == CHOOSE a \in DOMAIN ts :
                /\ \A b \in DOMAIN ts : Count(ts, ts[b].shape) <= Count(ts, ts[a].shape)
                /\ \A b \in 1..(a - 1) : Count(ts, ts[b].shape) < Count(ts, ts[a].shape)
  IN ts[best].shape

\* the positions the filter keeps
Retained(ts) ==
  SelectSeq([a \in DOMAIN ts |-> a], LAMBDA a : ts[a].shape = MostCommonShape(ts))

\* except ValueError: only the vectors of the most common shape are stacked
Filter ==
  /\ an_pc = "filter"
  /\ LET keep == Retained(all_activations)
         filtered_activations == [a \in DOMAIN keep |-> all_activations[keep[a]].data]
         filtered_labels == [a \in DOMAIN keep |-> an_all_labels[keep[a]]]
     IN /\ activations_array' = filtered_activations
        /\ activations_by_layer' =
             Put(activations_by_layer, layer,
                 [activations |-> filtered_activations, labels |-> filtered_labels])
  /\ an_pc' = "emotions"
  /\ UNCHANGED <<cliVars, captureVars, anNoInput, an_k, layer_data, emotions, report, all_activations,
                 an_all_labels, unique_emotions, neuron_importance_by_emotion, an_exc>>

\* np.unique sorts the labels
LabelOrder == <<"joy", "sad">>

\* unique_emotions = np.unique(all_labels)
UniqueEmotions ==
  /\ an_pc = "emotions"
  /\ unique_emotions' = SelectSeq(LabelOrder, LAMBDA l : l \in Range(an_all_labels))
  /\ an_pc' = "importance"
  /\ UNCHANGED <<cliVars, captureVars, anNoInput, an_k, layer_data, emotions, report, all_activations,
                 an_all_labels, activations_array, activations_by_layer,
                 neuron_importance_by_emotion, an_exc>>

\* np.where(np.array(all_labels) == emotion)[0] and its complement, from 1
EmotionIndices(emotion) ==
  SelectSeq([a \in DOMAIN an_all_labels |-> a], LAMBDA a : an_all_labels[a] = emotion)

OtherIndices(emotion) ==
  SelectSeq([a \in DOMAIN an_all_labels |-> a], LAMBDA a : an_all_labels[a] # emotion)

\* np.mean(activations_array[indices], axis=0)
MeanOfRows(indices) ==
  [k \in 1..Len(activations_array[1]) |->
     QMean([r \in DOMAIN indices |-> activations_array[indices[r]][k]])]

\* mutant: the score is the mean of the other rows minus the mean of the emotion's
Diff_reversed(emotion) ==
  [k \in 1..Len(activations_array[1]) |->
     QSub(MeanOfRows(OtherIndices(emotion))[k], MeanOfRows(EmotionIndices(emotion))[k])]

\* diff = emotion_mean - other_mean
Diff(emotion) ==
  [k \in 1..Len(activations_array[1]) |->
     QSub(MeanOfRows(EmotionIndices(emotion))[k], MeanOfRows(OtherIndices(emotion))[k])]

\* np.argsort(-diff)[:n]: the first n positions of any ordering of the positions
\* in rest by non-increasing score; numpy's default sort is not stable, so
\* positions of equal score may come in any order
RECURSIVE ArgsortTop(_, _, _)
ArgsortTop(diff, rest, n) ==
  IF n = 0 \/ rest = {} THEN {<<>>}
  ELSE UNION { { <<j>> \o tl : tl \in ArgsortTop(diff, rest \ {j}, n - 1) }
               : j \in {c \in rest : \A o \in rest : ~QLess(diff[c], diff[o])} }

\* the entry stored for an emotion: neurons counted from 0, as numpy does
ImportanceEntry(diff, order) ==
  [neurons |-> [r \in DOMAIN order |-> order[r] - 1],
   scores |-> [r \in DOMAIN order |-> diff[order[r]]]]

\* one pass of: for emotion in unique_emotions
Importance ==
  /\ an_pc = "importance" /\ unique_emotions # <<>>
  /\ LET emotion == Head(unique_emotions)
         ei == EmotionIndices(emotion)
         oi == OtherIndices(emotion)
     IN IF ei = <<>> \/ oi = <<>>
        THEN /\ an_pc' = IF Tail(unique_emotions) = <<>> THEN "layer" ELSE "importance"
             /\ unique_emotions' = Tail(unique_emotions)
             /\ UNCHANGED <<neuron_importance_by_emotion, an_exc>>
        ELSE IF \E a \in Range(ei) \cup Range(oi) : a > Len(activations_array)
        THEN /\ an_exc' = "IndexError"
             /\ an_pc' = "raised"
             /\ UNCHANGED <<unique_emotions, neuron_importance_by_emotion>>
        ELSE /\ \E diff \in {Diff(emotion)} :
                  \E order \in ArgsortTop(diff, DOMAIN diff, Min(TopN, Len(diff))) :
                     neuron_importance_by_emotion' =
                       Put(neuron_importance_by_emotion, emotion,
                           Put(IF emotion \in DOMAIN neuron_importance_by_emotion
                               THEN neuron_importance_by_emotion[emotion] ELSE EmptyMap,
                               layer, ImportanceEntry(diff, order)))
             /\ an_pc' = IF Tail(unique_emotions) = <<>> THEN "layer" ELSE "importance"
             /\ unique_emotions' = Tail(unique_emotions)
             /\ UNCHANGED an_exc
  /\ UNCHANGED <<cliVars, captureVars, anNoInput, an_k, layer_data, emotions, report, all_activations,
                 an_all_labels, activations_array, activations_by_layer>>

\* emotion in neuron_importance and layer in neuron_importance[emotion]
HasEntry(emotion, l) ==
  /\ emotion \in DOMAIN neuron_importance_by_emotion
  /\ l \in DOMAIN neuron_importance_by_emotion[emotion]

\* the first n elements of a list: s[:n]
Take(s, n) == SubSeq(s, 1, Min(n, Len(s)))

\* mutant: a layer without an entry shows the entry of another layer
TableRow_other(emotion, l) ==
  IF emotion \in DOMAIN neuron_importance_by_emotion
  THEN LET any == CHOOSE o \in DOMAIN neuron_importance_by_emotion[emotion] : TRUE
       IN [neurons |-> Take(neuron_importance_by_emotion[emotion][any].neurons, 5),
           scores |-> Take(neuron_importance_by_emotion[emotion][any].scores, 5)]
  ELSE None

\* the row of the table "Top Neurons by Emotion" for an emotion and a layer
TableRow(emotion, l) ==
  IF HasEntry(emotion, l)
  THEN [neurons |-> Take(neuron_importance_by_emotion[emotion][l].neurons, 5),
        scores |-> Take(neuron_importance_by_emotion[emotion][l].scores, 5)]
  ELSE None

\* mutant: a layer replaces the best one when its first score is not lower
RECURSIVE BestLayer_last(_, _, _)
BestLayer_last(emotion, ls, best) ==
  IF ls = <<>> THEN best
  ELSE LET data == IF HasEntry(emotion, Head(ls))
                   THEN neuron_importance_by_emotion[emotion][Head(ls)] ELSE None
       IN IF /\ HasEntry(emotion, Head(ls)) /\ Len(data.scores) > 0
             /\ ~QLess(data.scores[1], best.top_score)
          THEN BestLayer_last(emotion, Tail(ls),
                              [best_layer |-> Head(ls), top_score |-> data.scores[1],
                               top_neuron |-> data.neurons[1]])
          ELSE BestLayer_last(emotion, Tail(ls), best)

\* the loop that looks for the layer with the strongest first score
RECURSIVE BestLayer(_, _, _)
BestLayer(emotion, ls, best) ==
  IF ls = <<>> THEN best
  ELSE LET data == IF HasEntry(emotion, Head(ls))
                   THEN neuron_importance_by_emotion[emotion][Head(ls)] ELSE None
       IN IF /\ HasEntry(emotion, Head(ls)) /\ Len(data.scores) > 0
             /\ QLess(best.top_score, data.scores[1])
          THEN BestLayer(emotion, Tail(ls),
                         [best_layer |-> Head(ls), top_score |-> data.scores[1],
                          top_neuron |-> data.neurons[1]])
          ELSE BestLayer(emotion, Tail(ls), best)

\* the entry of "Tuning Recommendations" for an emotion, None for
\* "No strong distinctive neurons found"
Recommendation(emotion) ==
  LET b == BestLayer(emotion, key_layers,
                     [best_layer |-> "", top_score |-> Q(0, 1), top_neuron |-> -1])
  IN IF b.best_layer = "" THEN None
     ELSE [best_layer |-> b.best_layer, top_neuron |-> b.top_neuron,
           top_score |-> b.top_score,
           top_3_neurons |-> Take(neuron_importance_by_emotion[emotion][b.best_layer].neurons, 3),
           top_3_scores |-> Take(neuron_importance_by_emotion[emotion][b.best_layer].scores, 3)]

\* main after load_activations: the plots of each key layer with a matrix
Plots ==
  /\ an_pc = "plots"
  /\ report' = [plots |-> SelectSeq(key_layers, LAMBDA l : l \in DOMAIN activations_by_layer),
                table |-> EmptyMap, recommendations |-> EmptyMap]
  /\ an_pc' = "report"
  /\ UNCHANGED <<cliVars, captureVars, anNoInput, an_k, layer_data, emotions, all_activations,
                 an_all_labels, activations_array, activations_by_layer, unique_emotions,
                 neuron_importance_by_emotion, an_exc>>

\* generate_emotion_report
Report ==
  /\ an_pc = "report"
  /\ report' = [plots |-> report.plots,
                table |-> [emotion \in emotions |->
                             [l \in Range(key_layers) |-> TableRow(emotion, l)]],
                recommendations |-> [emotion \in emotions |-> Recommendation(emotion)]]
  /\ an_pc' = "done"
  /\ UNCHANGED <<cliVars, captureVars, anNoInput, an_k, layer_data, emotions, all_activations,
                 an_all_labels, activations_array, activations_by_layer, unique_emotions,
                 neuron_importance_by_emotion, an_exc>>

AnalysisInit ==
  /\ variant = "detailed" /\ arch = "tensor3"
  /\ n_layer = MaxLayers /\ block_size = MaxBlock /\ layer_names = {}
  /\ NewCapturer
  /\ pc = "off"
  /\ tweets = <<>>
  /\ NoRun
  /\ an_pc = "layer"
  /\ \E profile \in Profiles :
       \E ex \in ListsUpTo(Examples(profile), MaxItems) :
         \E names \in Dirs(profile) :
            /\ metadata = MetadataOf(ex)
            /\ an_dir = DirOf(names, profile, ex)
  /\ an_k = 0 /\ emotions = {} /\ report = None /\ layer_data = <<>>
  /\ all_activations = <<>> /\ an_all_labels = <<>> /\ activations_array = None
  /\ activations_by_layer = EmptyMap /\ unique_emotions = <<>>
  /\ neuron_importance_by_emotion = EmptyMap /\ an_exc = "none"
  /\ NoCli

AnalysisNext ==
  \/ NextLayer \/ LoadItems \/ Stack \/ Filter \/ UniqueEmotions \/ Importance
  \/ Plots \/ Report

AnalysisSpec == AnalysisInit /\ [][AnalysisNext]_vars

(* ============================== claims ================================ *)
Left == {"save", "done", "raised"}
Registrations == {h.reg : h \in Range(hooks)}

\* every component either capturer can observe, with its site
AllHandles ==
  IF variant = "detailed" THEN DetailedHandles(n_layer, 0)
  ELSE TweetHandles(n_layer, DefaultNames(n_layer), 0)

\* the site of a component, "" when the model has no such component
NameSite(c) ==
  IF \E h \in Range(AllHandles) : h.name = c
  THEN (CHOOSE h \in Range(AllHandles) : h.name = c).site
  ELSE ""

\* C1: once hooks are registered, however the per-tweet loop ends (all tweets
\* processed or an exception in tokenization, the forward pass or sampling),
\* remove_hooks has been called exactly once when the function goes on to save or
\* raises, and then no hook is left on the model nor in the capturer's list; until
\* then it has not been called and the hooks are attached.
C1_TeardownOnce ==
  /\ removeCalls = (IF pc \in Left THEN 1 ELSE 0)
  /\ pc \in Left => hooks = <<>> /\ modelHooks = <<>>
  /\ pc \notin Left \cup {"register"} => modelHooks # <<>>

C1_Witness ==
  /\ pc = "raised" /\ exc = "InferenceError" /\ i = 1
  /\ removeCalls = 1 /\ modelHooks = <<>> /\ hooks = <<>>

\* C2: while capture is disabled, a forward pass of the model, which calls the hook
\* of every site it executes, leaves the capturer's accumulator unchanged.
C2_DisabledNoOp ==
  [][(~capture_enabled /\ finput' # None) => activations' = activations]_vars

C2_Witness ==
  /\ pc = "api" /\ ~capture_enabled /\ finput # None /\ err = "none"
  /\ modelHooks # <<>> /\ activations # EmptyMap

\* C3: registering K distinct components attaches exactly K hooks, one per
\* component, and after one forward pass with capture enabled the accumulator has
\* an entry for a component if and only if the component is registered and its
\* site was executed by that pass.
C3_KSlots ==
  /\ Cardinality(Registrations) = 1 =>
       /\ Len(modelHooks) = Cardinality(Requested)
       /\ {h.name : h \in Range(modelHooks)} = Requested
  /\ ( /\ Cardinality(Registrations) = 1 /\ capture_enabled
       /\ finput # None /\ err = "none" /\ seenAgain = {} ) =>
       DOMAIN activations = {c \in Requested : NameSite(c) \in Sites(n_layer) \ fskip}

\* the entries of the lists are of tweets processed so far, one per tweet at most,
\* each with the label of its tweet
C4Entries ==
  \A name \in DOMAIN activation_data :
    LET l == activation_data[name]
    IN /\ \A a, b \in DOMAIN l : l[a].tweet_id = l[b].tweet_id => a = b
       /\ \A a \in DOMAIN l :
            \E k \in 0..(Len(tweets) - 1) :
              /\ k <= i
              /\ l[a].tweet_id = ToString(k)
              /\ l[a].label = tweets[k + 1].label

OldList(name) == IF name \in DOMAIN activation_data THEN activation_data[name] ELSE <<>>

\* C4: at every step of the capture loop each component's list has at most one
\* entry per tweet id, every entry carries the id and the label of one tweet
\* processed so far, and a list grows only by one entry for the current tweet and
\* only for a component whose hook was called in this tweet's cycle.
C4_CaptureRunInvariant ==
  [][ /\ C4Entries'
      /\ \A name \in DOMAIN activation_data' :
           LET new == activation_data'[name]
           IN \/ new = OldList(name)
              \/ /\ new = Append(OldList(name),
                                 [data |-> collected[name], label |-> tweets[i + 1].label,
                                  tweet_id |-> ToString(i)])
                 /\ NameSite(name) \in DOMAIN lastSeen ]_vars

C4_Witness ==
  /\ pc = "loop" /\ i = 2
  /\ "final_layer" \in DOMAIN activation_data
  /\ Len(activation_data["final_layer"]) = 1
  /\ Len(activation_data["input_embeds"]) = 2
  /\ all_labels[1] # all_labels[2]

C6_DisabledBeforeInference ==
  (cycle # "closed" /\ ~capture_enabled /\ lastSeen = EmptyMap) => activations = EmptyMap

C6_Witness ==
  /\ pc = "api" /\ cycle = "open" /\ ~capture_enabled
  /\ finput # None /\ err = "none" /\ modelHooks # <<>>
  /\ lastSeen = EmptyMap /\ activations = EmptyMap

\* C7: for every tweet, in input order, the loop calls start_capture, then the
\* model once, then stop_capture, then get_activations, and starts the next
\* tweet's cycle only after that; capture is enabled exactly from start_capture to
\* stop_capture, and the model's sites run only inside that one call.
C7_CycleProtocol ==
  /\ pc \in {"encode", "start_capture"} =>
       cycleLog = <<>> /\ cycle = "closed" /\ ~capture_enabled
  /\ pc \in {"crop", "forward"} =>
       cycleLog = <<"start_capture">> /\ capture_enabled
  /\ pc \in {"in_forward", "sample", "stop_capture"} =>
       cycleLog = <<"start_capture", "forward">> /\ capture_enabled
  /\ pc = "get_activations" =>
       cycleLog = <<"start_capture", "forward", "stop_capture">> /\ ~capture_enabled
  /\ pc \in {"store", "metadata"} =>
       /\ cycleLog = <<"start_capture", "forward", "stop_capture", "get_activations">>
       /\ cycle = "closed" /\ ~capture_enabled
  /\ fpos > 0 => pc = "in_forward"
  /\ Len(all_tweet_ids) = i
  /\ \A k \in 1..Len(all_tweet_ids) : all_tweet_ids[k] = ToString(k - 1)

C7_Witness ==
  /\ pc = "store" /\ i = 1 /\ Len(all_tweet_ids) = 1
  /\ cycleLog = <<"start_capture", "forward", "stop_capture", "get_activations">>
  /\ collected # EmptyMap

\* the value the extraction rule gives for the result of a site
Extraction(out) ==
  IF Rank(Primary(out)) = 3 THEN SelectLast(Primary(out)) ELSE Primary(out)

\* C8: when a site's hook is called several times while capture is enabled in one
\* cycle, the accumulator holds for its component the extraction of the result of
\* the last call.
C8_LastWriteWins ==
  \A h \in Range(AllHandles) :
    (h.name \in DOMAIN activations /\ h.site \in DOMAIN lastSeen) =>
      activations[h.name] = Extraction(lastSeen[h.site])

C8_Witness ==
  /\ pc = "api" /\ "drop" \in seenAgain /\ err = "none" /\ finput # None
  /\ "input_embeds" \in DOMAIN activations
  /\ activations["input_embeds"] = Extraction(lastSeen["drop"])

\* C9: every hook called while capture is enabled uses only the first tensor of a
\* tuple result, and when that tensor has three dimensions it stores the slice at
\* the last position of the second dimension.
C9_ExtractionRule ==
  \A h \in Range(NewHandles) :
    (h.site \in DOMAIN lastSeen /\ Rank(Primary(lastSeen[h.site])) = 3) =>
      /\ h.name \in DOMAIN activations
      /\ activations[h.name] = SelectLast(Primary(lastSeen[h.site]))

\* C10: a forward pass with hooks registered, capture enabled or not, returns what
\* the forward pass with no hook returns for the same input.
C10_OutputUnchanged ==
  finput # None => (err = "none" /\ returned = PlainForward(finput, fskip))

\* the names requested that no site of the model answers to
Unknown == {c \in Requested : NameSite(c) = ""}

Attached ==
  SelectSeq(IF variant = "detailed" THEN DetailedHandles(n_layer, Len(hooks))
            ELSE TweetHandles(n_layer, DefaultNames(n_layer), Len(hooks)),
            LAMBDA h : h.name \in Requested \/ h.name = "input_embeds")

C12_RegisterFailureDetaches ==
  pc = "register_raised" => (modelHooks = <<>> /\ hooks = <<>> /\ removeCalls = 1)

\* C13: when the forward pass (or any step) of tweet i raises, the exception is
\* not swallowed: it propagates through the finally clause to the caller, nothing
\* is recorded for tweet i, no later tweet is processed and nothing is saved.
C13_AbortOnFailure ==
  /\ err # "none" => exc = err /\ pc \in {"finally", "register_raised"}
  /\ exc # "none" => pc \in {"finally", "raised", "register_raised"}
  /\ pc \in {"save", "done"} => exc = "none" /\ i = Len(tweets)
  /\ pc \in {"finally", "raised"} /\ exc # "none" =>
       /\ i < Len(tweets) /\ saved = EmptyMap
       /\ Len(all_tweet_ids) = i /\ Len(all_labels) = i /\ Len(all_generated) = i
       /\ \A name \in DOMAIN activation_data :
            \A a \in DOMAIN activation_data[name] :
              activation_data[name][a].tweet_id # ToString(i)

C13_Witness ==
  /\ pc = "raised" /\ exc = "InferenceError" /\ Len(tweets) = 2 /\ i = 1
  /\ all_tweet_ids = <<"0">> /\ saved = EmptyMap
  /\ \A name \in DOMAIN activation_data : Len(activation_data[name]) = 1
  /\ activation_data # EmptyMap

AfterCrop ==
  {"forward", "in_forward", "sample", "stop_capture", "get_activations", "store", "metadata"}

C15_MetadataTable ==
  /\ Len(all_tweet_ids) = i /\ Len(all_tweets) = i /\ Len(all_labels) = i
  /\ Len(all_generated) = i /\ Len(all_token_lengths) = i
  /\ \A k \in 1..i :
       /\ all_tweet_ids[k] = ToString(k - 1)
       /\ all_tweets[k] = tweets[k].text
       /\ all_labels[k] = tweets[k].label
       /\ all_generated[k] \in GenTexts
       /\ all_token_lengths[k] = Len(Encode(tweets[k].text))
  /\ pc = "done" =>
       /\ saved["gen_metadata.pt"].tweet_ids = all_tweet_ids
       /\ saved["gen_metadata.pt"].tweets = all_tweets
       /\ saved["gen_metadata.pt"].labels = all_labels
       /\ saved["gen_metadata.pt"].generated_text = all_generated
       /\ saved["gen_metadata.pt"].token_lengths = all_token_lengths
  /\ pc = "done" /\ variant = "detailed" =>
       /\ Len(saved["samples.json"]) = i
       /\ \A k \in 1..i :
            saved["samples.json"][k] =
              [id |-> ToString(k - 1), text |-> tweets[k].text,
               label |-> tweets[k].label, generated |-> all_generated[k]]

C15_Witness ==
  /\ pc = "done" /\ variant = "detailed" /\ i = 2
  /\ Len(saved["samples.json"]) = 2
  /\ saved["samples.json"][1].label # saved["samples.json"][2].label
  /\ saved["gen_metadata.pt"].token_lengths[1] # saved["gen_metadata.pt"].token_lengths[2]

\* the number of the tweet an id names
IdNum(id) == CHOOSE k \in 0..Len(tweets) : ToString(k) = id

\* C16: a completed run has written, for every component with at least one record
\* and for no other, one file <component>_activations.pt; the file holds the
\* component's records {data, label, tweet_id}, one per tweet in which the
\* component was collected, in the order the tweets were processed, each with
\* the label of its tweet.
C16_PersistedLayout ==
  pc = "done" =>
    /\ DOMAIN saved \ {"gen_metadata.pt", "samples.json"}
         = {FileOf(name) : name \in DOMAIN activation_data}
    /\ \A name \in DOMAIN activation_data :
         LET l == saved[FileOf(name)]
         IN /\ Len(l) >= 1 /\ Len(l) <= Len(tweets)
            /\ l = activation_data[name]
            /\ \A a \in DOMAIN l :
                 /\ DOMAIN l[a] = {"data", "label", "tweet_id"}
                 /\ \E k \in 0..(Len(tweets) - 1) :
                      l[a].tweet_id = ToString(k) /\ l[a].label = tweets[k + 1].label
            /\ \A a, b \in DOMAIN l : a < b => IdNum(l[a].tweet_id) < IdNum(l[b].tweet_id)
    /\ Len(tweets) = 0 => DOMAIN activation_data = {}
    /\ Len(tweets) > 0 =>
         /\ FileOf("input_embeds") \in DOMAIN saved
         /\ Len(saved[FileOf("input_embeds")]) = Len(tweets)

C16_Witness ==
  /\ pc = "done" /\ Len(tweets) = 2
  /\ "final_layer_activations.pt" \in DOMAIN saved
  /\ Len(saved["final_layer_activations.pt"]) = 1
  /\ saved["final_layer_activations.pt"][1].tweet_id = "1"
  /\ Len(saved["input_embeds_activations.pt"]) = 2
  /\ tweets[1].label # tweets[2].label

\* the items have been turned into vectors
Loaded == an_pc \in {"stack", "filter", "emotions", "importance", "raised"}

\* the mean over the first of two dimensions [rows, cols], feature k
ColMean(data, rows, cols, k) ==
  LET total == QSum([r \in 1..rows |-> data[(r - 1) * cols + k]])
  IN Q(total.n, total.d * rows)

\* C17: the vector of an item follows the first rule its tensor matches: rank 3
\* with both leading dimensions 1 gives the features at [0, 0, :]; any other rank 3
\* with batch 1 gives the mean over the sequence dimension; rank 2 gives the mean
\* over the first dimension; rank 1 is left as it is; anything else is flattened.
\* The vector always has rank 1.
C17_NormalizeOne ==
  Loaded =>
    \A a \in DOMAIN all_activations :
      LET t == layer_data[Kept[a]].data
          v == all_activations[a]
      IN /\ Rank(v) = 1 /\ Len(v.data) = v.shape[1]
         /\ IF Rank(t) = 3 /\ t.shape[1] = 1 /\ t.shape[2] = 1
            THEN v.shape = <<t.shape[3]>> /\ \A k \in 1..t.shape[3] : v.data[k] = t.data[k]
            ELSE IF Rank(t) = 3 /\ t.shape[1] = 1
            THEN /\ v.shape = <<t.shape[3]>>
                 /\ \A k \in 1..t.shape[3] :
                      v.data[k] = ColMean(t.data, t.shape[2], t.shape[3], k)
            ELSE IF Rank(t) = 2
            THEN /\ v.shape = <<t.shape[2]>>
                 /\ \A k \in 1..t.shape[2] :
                      v.data[k] = ColMean(t.data, t.shape[1], t.shape[2], k)
            ELSE IF Rank(t) = 1 THEN v = t
            ELSE v.shape = <<Prod(t.shape)>> /\ v.data = t.data

C17_Witness ==
  /\ an_pc = "stack" /\ Len(all_activations) = 3
  /\ layer_data[1].data.shape = <<1, 2, MaxEmbd>>
  /\ all_activations[1].shape = <<MaxEmbd>>
  /\ all_activations[1].data[1] # layer_data[1].data.data[1]
  /\ layer_data[2].data.shape = <<2, 1, MaxEmbd>>
  /\ all_activations[2].shape = <<2 * MaxEmbd>>
  /\ layer_data[3].data.shape = <<MaxEmbd>>
  /\ all_activations[3] = layer_data[3].data

\* the stacking has been done, with or without the filter
Stacked == an_pc \in {"emotions", "importance", "raised"}

\* the positions of all_activations whose vector has the shape kept
KeptPositions(shape) ==
  SelectSeq([a \in DOMAIN all_activations |-> a],
            LAMBDA a : all_activations[a].shape = shape)

\* C18: when the vectors' shapes disagree, the matrix holds exactly the vectors of
\* the most frequent shape (of the one met first, among equally frequent ones), in
\* their original order and each with its label, so N minus the number of
\* vectors of that shape are discarded and the result is a function of the input.
C18_MajorityShape ==
  (Stacked /\ ~SameShapes(all_activations)) =>
    \E w \in DOMAIN all_activations :
      LET shape == all_activations[w].shape
          keep == KeptPositions(shape)
          n == Cardinality({a \in DOMAIN all_activations : all_activations[a].shape = shape})
      IN /\ \A b \in DOMAIN all_activations :
              Cardinality({a \in DOMAIN all_activations :
                             all_activations[a].shape = all_activations[b].shape}) <= n
         /\ \A b \in 1..(w - 1) :
              Cardinality({a \in DOMAIN all_activations :
                             all_activations[a].shape = all_activations[b].shape}) < n
         /\ Len(activations_by_layer[layer].activations) = n
         /\ Len(all_activations) - Len(activations_by_layer[layer].activations)
              = Len(all_activations) - n
         /\ Len(activations_by_layer[layer].labels) = n
         /\ \A r \in 1..n :
              /\ activations_by_layer[layer].activations[r] = all_activations[keep[r]].data
              /\ activations_by_layer[layer].labels[r] = an_all_labels[keep[r]]
         /\ activations_array = activations_by_layer[layer].activations

C18_Witness ==
  /\ an_pc = "emotions" /\ Len(all_activations) = 3
  /\ all_activations[1].shape # all_activations[2].shape
  /\ all_activations[2].shape = all_activations[3].shape
  /\ Len(activations_by_layer[layer].activations) = 2
  /\ activations_by_layer[layer].labels = <<an_all_labels[2], an_all_labels[3]>>
  /\ an_all_labels[1] # an_all_labels[2]

\* C19: the rows selected for an emotion are rows of the matrix, and they are
\* exactly the rows whose label, in the labels kept with the matrix, is the
\* emotion; also when the filter has discarded vectors.
C19_LabelsParallel ==
  /\ an_exc = "none"
  /\ an_pc = "importance" =>
       \A emotion \in Range(unique_emotions) :
         /\ \A a \in Range(EmotionIndices(emotion)) \cup Range(OtherIndices(emotion)) :
              a <= Len(activations_array)
         /\ Range(EmotionIndices(emotion))
              = {r \in DOMAIN activations_by_layer[layer].labels :
                   activations_by_layer[layer].labels[r] = emotion}

\* the score of feature k for an emotion: mean of its rows minus mean of the others
Score(emotion, k) ==
  QSub(MeanOfRows(EmotionIndices(emotion))[k], MeanOfRows(OtherIndices(emotion))[k])

\* C20: the entry stored for an emotion lists min(20, number of features) distinct
\* features by non-increasing score, each with its own score, the score being the
\* mean over the emotion's rows minus the mean over the other rows, and no feature
\* left out scores more than a listed one.
C20_Importance ==
  \A emotion \in {c \in DOMAIN neuron_importance_by_emotion :
                    an_k > 0 /\ layer \in DOMAIN neuron_importance_by_emotion[c]} :
    LET e == neuron_importance_by_emotion[emotion][layer]
        d == Len(activations_array[1])
        n == IF d < TopN THEN d ELSE TopN
    IN /\ Len(e.neurons) = n /\ Len(e.scores) = n
       /\ \A r \in 1..n : e.neurons[r] \in 0..(d - 1)
       /\ \A r, q \in 1..n : e.neurons[r] = e.neurons[q] => r = q
       /\ \A r \in 1..n : e.scores[r] = Score(emotion, e.neurons[r] + 1)
       /\ \A r \in 1..(n - 1) : ~QLess(e.scores[r], e.scores[r + 1])
       /\ \A k \in 1..d :
            (\A r \in 1..n : e.neurons[r] # k - 1) =>
              \A r \in 1..n : ~QLess(e.scores[r], Score(emotion, k))

C20_Witness ==
  /\ an_pc = "layer" /\ an_exc = "none" /\ an_k = 1 /\ layer = "final_layer"
  /\ DOMAIN neuron_importance_by_emotion = {"joy", "sad"}
  /\ Len(activations_array) = 3 /\ Len(activations_array[1]) = TopN + 1
  /\ Len(neuron_importance_by_emotion["joy"]["final_layer"].neurons) = TopN
  /\ Len(neuron_importance_by_emotion["sad"]["final_layer"].neurons) = TopN
  /\ neuron_importance_by_emotion["sad"]["final_layer"].neurons[1] = TopN
  /\ \A r \in 1..TopN : neuron_importance_by_emotion["sad"]["final_layer"].neurons[r] # 0
  /\ neuron_importance_by_emotion["joy"]["final_layer"].neurons[1] = 0
  /\ \A r \in 1..TopN : neuron_importance_by_emotion["joy"]["final_layer"].neurons[r] # TopN

\* the rows of a layer's matrix that carry the emotion
RowsOf(l, emotion) ==
  {r \in DOMAIN activations_by_layer[l].labels : activations_by_layer[l].labels[r] = emotion}

\* the emotion has all of the rows of the layer's matrix, or none, or the layer
\* has no matrix
OnePartition(l, emotion) ==
  \/ l \notin DOMAIN activations_by_layer
  \/ RowsOf(l, emotion) = {}
  \/ RowsOf(l, emotion) = DOMAIN activations_by_layer[l].labels

\* C21: an emotion that has all or none of the rows of a layer's matrix gets no
\* entry for that layer, the table of the report shows no neurons for the pair and
\* the recommendation for the emotion is not taken from that layer.
C21_BothPartitions ==
  an_pc = "done" =>
    \A emotion \in emotions :
      \A l \in Range(key_layers) :
        OnePartition(l, emotion) =>
          /\ ~(/\ emotion \in DOMAIN neuron_importance_by_emotion
               /\ l \in DOMAIN neuron_importance_by_emotion[emotion])
          /\ report.table[emotion][l] = None
          /\ report.recommendations[emotion] # None =>
               report.recommendations[emotion].best_layer # l

C21_Witness ==
  /\ an_pc = "done"
  /\ key_layers = <<"final_layer", "layer_11">>
  /\ DOMAIN activations_by_layer = {"final_layer", "layer_11"}
  /\ emotions = {"joy", "sad"}
  /\ Len(activations_by_layer["final_layer"].labels) = 3
  /\ RowsOf("layer_11", "sad") = {}
  /\ RowsOf("layer_11", "joy") = {1}
  /\ report.table["sad"]["final_layer"] # None
  /\ report.table["sad"]["layer_11"] = None
  /\ report.table["joy"]["layer_11"] = None
  /\ report.recommendations["sad"] # None

\* C22: in the entry of the layer the loop is at, features of equal score are
\* listed by increasing index, and a feature left out never has the score of a
\* listed feature of greater index: the list is determined by the scores.
C22_StableTies ==
  \A emotion \in {c \in DOMAIN neuron_importance_by_emotion :
                    an_k > 0 /\ layer \in DOMAIN neuron_importance_by_emotion[c]} :
    LET e == neuron_importance_by_emotion[emotion][layer]
        n == Len(e.neurons)
    IN /\ \A r, q \in 1..n :
            (r < q /\ e.scores[r] = e.scores[q]) => e.neurons[r] < e.neurons[q]
       /\ \A k \in 1..Len(activations_array[1]) :
            (\A r \in 1..n : e.neurons[r] # k - 1) =>
              \A r \in 1..n : e.scores[r] = Score(emotion, k) => e.neurons[r] < k - 1

\* the layers that hold an entry for the emotion
EntryLayers(emotion) ==
  IF emotion \in DOMAIN neuron_importance_by_emotion
  THEN Range(key_layers) \cap DOMAIN neuron_importance_by_emotion[emotion]
  ELSE {}

\* C23: the recommendation for an emotion names the layer and neuron of the
\* highest score of all its entries when that score is positive, with the
\* first three neurons of that layer's entry; when no entry has a positive score
\* the report has no recommendation for the emotion.
C23_Summary ==
  an_pc = "done" =>
    \A emotion \in emotions :
      LET rec == report.recommendations[emotion]
          positive == \E l \in EntryLayers(emotion) :
                        \E r \in DOMAIN neuron_importance_by_emotion[emotion][l].scores :
                          QLess(Q(0, 1), neuron_importance_by_emotion[emotion][l].scores[r])
      IN IF positive
         THEN /\ rec # None
              /\ rec.best_layer \in EntryLayers(emotion)
              /\ LET e == neuron_importance_by_emotion[emotion][rec.best_layer]
                 IN /\ rec.top_neuron = e.neurons[1]
                    /\ rec.top_score = e.scores[1]
                    /\ QLess(Q(0, 1), rec.top_score)
                    /\ rec.top_3_neurons = SubSeq(e.neurons, 1, IF Len(e.neurons) < 3
                                                                THEN Len(e.neurons) ELSE 3)
                    /\ rec.top_3_scores = SubSeq(e.scores, 1, IF Len(e.scores) < 3
                                                              THEN Len(e.scores) ELSE 3)
              /\ \A l \in EntryLayers(emotion) :
                   \A r \in DOMAIN neuron_importance_by_emotion[emotion][l].scores :
                     ~QLess(rec.top_score, neuron_importance_by_emotion[emotion][l].scores[r])
         ELSE rec = None

C23_Witness ==
  /\ an_pc = "done"
  /\ key_layers = <<"final_layer", "layer_9">>
  /\ emotions = {"joy", "sad"}
  /\ EntryLayers("joy") = {"final_layer", "layer_9"}
  /\ activations_by_layer["final_layer"].labels = <<"joy", "joy", "sad">>
  /\ activations_by_layer["final_layer"].activations[2][2] = Q(1, 1)
  /\ activations_by_layer["final_layer"].activations[3][1] = Q(0, 1)
  /\ report.recommendations["joy"] # None
  /\ report.recommendations["joy"].best_layer = "final_layer"
  /\ report.recommendations["joy"].top_neuron = 0
  /\ report.recommendations["joy"].top_score = Q(1, 1)
  /\ report.recommendations["joy"].top_3_neurons[2] = 1
  /\ report.recommendations["sad"] # None
  /\ report.recommendations["sad"].best_layer = "layer_9"

\* all elements of a tensor as one vector
Flattened(t) == Tensor(<<Prod(t.shape)>>, t.data)

\* C24: a hook called while capture is enabled with a result that does not have
\* three dimensions raises nothing and stores the flattened result for its
\* component.
C24_MalformedFlattened ==
  \A h \in Range(NewHandles) :
    (h.site \in DOMAIN lastSeen /\ Rank(Primary(lastSeen[h.site])) # 3) =>
      /\ err = "none"
      /\ h.name \in DOMAIN activations
      /\ activations[h.name] = Flattened(Primary(lastSeen[h.site]))

\* C25: the identifiers list prints for the model are the identifiers
\* DetailedActivationCapturer.register_hooks has attached a hook for.
C25_ListIsRegistrable ==
  (variant = "detailed" /\ hooks # <<>>) =>
    list_available_components(n_layer) = {h.name : h \in Range(modelHooks)}

\* C26: the words capture of main.py forwards are accepted by the capture
\* script, whether or not --max_tweets was given.
C26_ForwardedAccepted == pc # "usage_error"

\* C27: a step that starts a cycle leaves the accumulator empty; the map collected
\* for a tweet holds, for each component, what the component's site gave in this
\* tweet's forward pass and nothing of an earlier pass; and the records stored
\* for earlier tweets are never changed.
C27_NoStaleCarryOver ==
  [][ /\ (cycleLog' = <<"start_capture">> /\ cycleLog # cycleLog') => activations' = EmptyMap
      /\ pc' = "store" =>
           \A name \in DOMAIN collected' :
             /\ NameSite(name) \in DOMAIN lastSeen'
             /\ collected'[name] = Extraction(lastSeen'[NameSite(name)])
      /\ \A name \in DOMAIN activation_data :
           /\ name \in DOMAIN activation_data'
           /\ \A k \in DOMAIN activation_data[name] :
                /\ k \in DOMAIN activation_data'[name]
                /\ activation_data'[name][k] = activation_data[name][k] ]_vars

C27_Witness ==
  /\ pc = "store" /\ i = 1
  /\ "final_layer" \in DOMAIN activation_data
  /\ "final_layer" \notin DOMAIN collected
  /\ "input_embeds" \in DOMAIN collected
  /\ collected["input_embeds"] # activation_data["input_embeds"][1].data

\* C28: files are written only by the step after the finally clause of a run in
\* which every tweet was processed, nothing was raised and the hooks have been
\* removed; a run that has raised has written no file.
C28_NoPartialPersistence ==
  [][ /\ saved' # saved =>
           /\ pc = "save" /\ exc = "none"
           /\ i = Len(tweets) /\ Len(all_tweet_ids) = Len(tweets)
           /\ hooks = <<>> /\ modelHooks = <<>> /\ removeCalls = 1
           /\ saved = EmptyMap
      /\ exc' # "none" => saved' = EmptyMap ]_vars

C28_Witness ==
  /\ pc = "raised" /\ exc # "none" /\ Len(tweets) = 2 /\ i = 1
  /\ "input_embeds" \in DOMAIN activation_data
  /\ Len(activation_data["input_embeds"]) = 1
  /\ modelHooks = <<>> /\ removeCalls = 1
  /\ DOMAIN saved = {}

\* C29: the label the analysis gives the vector of a record, the metadata label at
\* the record's position in the layer's list, is the label stored in the record,
\* and the metadata names at that position the tweet the record carries.
C29_LabelFidelity ==
  Loaded =>
    \A a \in DOMAIN an_all_labels :
      /\ an_all_labels[a] = layer_data[Kept[a]].label
      /\ metadata.tweet_ids[Kept[a]] = layer_data[Kept[a]].tweet_id

\* the layers the analysis may use, in the order it takes them up
AnalysisOrder == <<"final_layer", "layer_11", "layer_10", "layer_9">>

\* the names of AnalysisOrder before position p that have a file
FilesBefore(p) == {q \in 1..(p - 1) : AnalysisOrder[q] \in DOMAIN an_dir}

\* C30: the loop takes up only files of final_layer, layer_11, layer_10 and
\* layer_9, each that exists once and in this order, and matrices, importance
\* entries, plots, table rows and recommendations exist only for these layers.
C30_KeyLayersOnly ==
  [][ /\ an_k' # an_k =>
           \E p \in DOMAIN AnalysisOrder :
             /\ AnalysisOrder[p] \in DOMAIN an_dir
             /\ layer_data' = an_dir[AnalysisOrder[p]]
             /\ Cardinality(FilesBefore(p)) = an_k
             /\ an_k' = an_k + 1
      /\ layer_data' # layer_data => an_k' # an_k
      /\ an_pc' \in {"plots", "report", "done"} =>
           an_k' = Cardinality(Range(AnalysisOrder) \cap DOMAIN an_dir)
      /\ DOMAIN activations_by_layer' \subseteq Range(AnalysisOrder) \cap DOMAIN an_dir
      /\ \A emotion \in DOMAIN neuron_importance_by_emotion' :
           DOMAIN neuron_importance_by_emotion'[emotion]
             \subseteq Range(AnalysisOrder) \cap DOMAIN an_dir
      /\ report' # None =>
           /\ Range(report'.plots) \subseteq Range(AnalysisOrder) \cap DOMAIN an_dir
           /\ \A emotion \in DOMAIN report'.table :
                DOMAIN report'.table[emotion] = Range(AnalysisOrder) \cap DOMAIN an_dir
           /\ \A emotion \in DOMAIN report'.recommendations :
                report'.recommendations[emotion] # None =>
                  report'.recommendations[emotion].best_layer
                    \in Range(AnalysisOrder) \cap DOMAIN an_dir ]_vars

C30_Witness ==
  /\ an_pc = "done"
  /\ DOMAIN an_dir = {"final_layer", "layer_11", "layer_0"}
  /\ DOMAIN activations_by_layer = {"final_layer", "layer_11"}
  /\ report.plots = <<"final_layer", "layer_11">>
  /\ \E emotion \in emotions :
       /\ DOMAIN report.table[emotion] = {"final_layer", "layer_11"}
       /\ report.recommendations[emotion] # None

====
